---- MODULE Spec2Model ----
(***************************************************************************)
(* pvd::Stream (src/projects/base/provider/stream.cpp): the provider       *)
(* stream's lifecycle, frame dispatch and per-track timestamp engine.      *)
(*                                                                         *)
(* Per-track maps (std::map<uint32_t, int64_t>) are functions whose DOMAIN *)
(* is the set of keys present.  Wall-clock instants and the microsecond    *)
(* maps are integers; the instant "never" (time_point::min()) is Never.    *)
(* Every operation records what it was called with and what it returned in *)
(* the variable call, so that properties can speak about return values and *)
(* about the reference arguments pts/dts after the call.                   *)
(***************************************************************************)
EXTENDS Integers, FiniteSets, Sequences, TLC

VARIABLES
    state, \* _state
    application, \* _application # nullptr
    tracks, \* the Track Directory of info::Stream: id -> [num, den, data]
    base, \* _base_timestamp_map      (us)
    source, \* _source_timestamp_map    (raw)
    last, \* _last_timestamp_map      (us)
    wrap, \* _wraparound_count_map[0 = PTS, 1 = DTS]
    origin, \* _last_origin_ts_map[0 = PTS, 1 = DTS]
    start, \* _start_timestamp         (us, -1 = unset)
    lastPkt, \* _last_pkt_received_time
    now, \* std::chrono::system_clock::now()
    stopCalls, \* whether Stop() has ever been called
    prod, \* the producer feeding AdjustTimestampByBase: unwrapped pts/dts
    emitted, \* the adjusted pts/dts the producer got back last
    call          \* the last operation: [op, in, out]

vars == <<state, application, tracks, base, source, last, wrap, origin, start,
          lastPkt, now, stopCalls, prod, emitted, call>>

engine == <<base, source, last, wrap, origin, start>>

(***************************************************************************)
(* Bounds of the model.                                                    *)
(***************************************************************************)
MaxNow == 1
MaxTs == 2
MaxWrap == 1

(***************************************************************************)
(* Program constants.                                                      *)
(***************************************************************************)
\* time_point<system_clock>::min(): no packet was ever received
Never == -1
\* the unset value of _start_timestamp
Unset == -1
\* std::numeric_limits<int64_t>::max(), at the width the checker's integers allow
Int64Max == 1073741823
Int64Min == -Int64Max - 1
MicroPerSec == 1000000

States == {"IDLE", "PLAYING", "STOPPED", "TERMINATED"}
PacketTypes == {"Unknown", "OVT", "RAW"}
Formats == {"Unknown", "H264"}

(***************************************************************************)
(* std::map helpers.                                                       *)
(***************************************************************************)
EmptyMap == [k \in {} |-> 0]

Put(m, k, v) == [x \in (DOMAIN m) \cup {k} |-> IF x = k THEN v ELSE m[x]]

Has(m, k) == k \in DOMAIN m

\* operator[] on a key that may be absent: a value-initialised (0) entry
At(m, k) == IF k \in DOMAIN m THEN m[k] ELSE 0

Min(S) == CHOOSE x \in S : \A y \in S : x <= y

RECURSIVE Gcd(_, _)
Gcd(a, b) == IF b = 0 THEN a ELSE Gcd(b, a % b)

\* (int64_t) of the quotient a / b of a double: truncation toward zero
Trunc(a, b) == IF a >= 0 THEN a \div b ELSE -((-a) \div b)

(***************************************************************************)
(* Track Directory (info::Stream::GetTrack) and the timebase conversions.  *)
(***************************************************************************)
GetTrack(t) == t \in DOMAIN tracks

\* (int64_t)((double)x * expr_tb2us), expr_tb2us = GetExpr() * 1000000
TbToUs(x, tb) ==
    LET g == Gcd(tb.num * MicroPerSec, tb.den)
    IN  Trunc(x * ((tb.num * MicroPerSec) \div g), tb.den \div g)

\* the conversion rounded to the nearest tick instead of truncated
UsToTbRounded(x, tb) ==
    LET g == Gcd(tb.den, tb.num * MicroPerSec)
        d == (tb.num * MicroPerSec) \div g
    IN  Trunc(2 * x * (tb.den \div g) + (IF x >= 0 THEN d ELSE -d), 2 * d)

\* (int64_t)((double)x * expr_us2tb), expr_us2tb = GetTimescale() / 1000000
UsToTb(x, tb) ==
    LET g == Gcd(tb.den, tb.num * MicroPerSec)
    IN  Trunc(x * (tb.den \div g), (tb.num * MicroPerSec) \div g)


(***************************************************************************)
(* The Track Directory of the default specification: a 1 MHz track, and a  *)
(* 500 kHz track of the data kind.  Id 3 is in no directory.               *)
(***************************************************************************)
TrackIds == {1, 2, 3}

DefaultTracks ==
    (1 :> [num |-> 1, den |-> 1000000, data |-> FALSE]) @@
    (2 :> [num |-> 1, den |-> 500000, data |-> TRUE])

\* rep: 2 when the operation before this one was a Stop() too, else 1
Called(op, in, out) ==
    [op |-> op, in |-> in, out |-> out,
     rep |-> IF op = "Stop" /\ call.op = "Stop" THEN 2 ELSE 1]

(***************************************************************************)
(* Stream::Stream: the state after construction.  The first constructor    *)
(* leaves _application null, the others attach the owning application.     *)
(***************************************************************************)
InitEngine ==
    /\ base = EmptyMap
    /\ source = EmptyMap
    /\ last = EmptyMap
    /\ wrap = <<EmptyMap, EmptyMap>>
    /\ origin = <<EmptyMap, EmptyMap>>
    /\ start = Unset

InitStream ==
    /\ state = "IDLE"
    /\ application \in BOOLEAN
    /\ InitEngine
    /\ lastPkt = Never
    /\ now = 0
    /\ stopCalls = FALSE
    /\ emitted = << >>
    /\ call = [op |-> "Stream", in |-> << >>, out |-> << >>, rep |-> 1]

Init ==
    /\ InitStream
    /\ tracks = DefaultTracks
    /\ prod = <<0, 0>>

(***************************************************************************)
(* The wall clock advances between calls.                                  *)
(***************************************************************************)
Tick ==
    /\ now < MaxNow
    /\ now' = now + 1
    /\ UNCHANGED <<state, application, tracks, engine, lastPkt, stopCalls, prod, emitted, call>>

(***************************************************************************)
(* Stream::UpdateReconnectTimeToBasetime (lines 78-91).  An entry whose    *)
(* sum leaves int64_t is a signed overflow: ub picks what the build made   *)
(* of it (the wrapped sum, or the saturated value).                        *)
(***************************************************************************)
AddGap(v, gap, ub) ==
    IF v + gap > Int64Max
    THEN IF ub THEN ((v + gap) - Int64Max - 1) + Int64Min ELSE Int64Max
    ELSE v + gap

\* the gap added in the milliseconds the log line prints
UpdateReconnectMillis(ub) ==
    IF lastPkt # Never
    THEN [k \in DOMAIN base |-> AddGap(base[k], (now - lastPkt) \div 1000, ub)]
    ELSE base

UpdateReconnectTimeToBasetime(ub) ==
    IF lastPkt # Never
    THEN [k \in DOMAIN base |-> AddGap(base[k], now - lastPkt, ub)]
    ELSE base

(***************************************************************************)
(* Stream::Start (lines 47-54)                                             *)
(***************************************************************************)
\* a Start() that refuses a terminated stream
StartResultGuarded == state # "TERMINATED"

\* line 53: return true, whatever the state
StartResult == TRUE

Start(ub) ==
    /\ base' = UpdateReconnectTimeToBasetime(ub)
    /\ call' = Called("Start", << >>, <<StartResult>>)
    /\ UNCHANGED <<state, application, tracks, source, last, wrap, origin, start,
                   lastPkt, now, stopCalls, prod, emitted>>

(***************************************************************************)
(* Stream::ResetSourceStreamTimestamp (lines 189-237)                      *)
(***************************************************************************)
\* the disabled branch of lines 205-215: the maximum instead of the minimum
LastTimestampMax ==
    LET valid == {k \in DOMAIN last : GetTrack(k)}
    IN  IF valid = {} THEN Int64Min
        ELSE CHOOSE x \in {last[k] : k \in valid} : \A k \in valid : last[k] <= x

\* lines 193-203: the minimum over the entries whose track GetTrack() finds
LastTimestampMin ==
    LET valid == {k \in DOMAIN last : GetTrack(k)}
    IN  IF valid = {} THEN Int64Max ELSE Min({last[k] : k \in valid})

\* every key of _last_timestamp_map rebased to its own last timestamp
RebasedPerTrack ==
    [k \in (DOMAIN base) \cup (DOMAIN last) |->
        IF k \in DOMAIN last THEN last[k] ELSE base[k]]

\* lines 219-231: every key of _last_timestamp_map gets the common value
RebasedMap ==
    [k \in (DOMAIN base) \cup (DOMAIN last) |->
        IF k \in DOMAIN last THEN LastTimestampMin ELSE base[k]]

ResetSourceStreamTimestamp ==
    /\ base' = RebasedMap
    /\ start' = Unset
    /\ source' = EmptyMap

(***************************************************************************)
(* Stream::Stop (lines 56-69)                                              *)
(***************************************************************************)
\* a Stop() that rebases whatever the state
StopGuardNever == FALSE

\* lines 58-61
StopGuard == state = "STOPPED"

\* a Stop() that reports failure on a stream already stopped
StopResultMut(stopped) == ~stopped

\* lines 60 and 68: both paths return true
StopResult(stopped) == TRUE

Stop ==
    /\ IF StopGuard
       THEN UNCHANGED <<state, base, start, source>>
       ELSE /\ ResetSourceStreamTimestamp
            /\ state' = "STOPPED"
    /\ stopCalls' = TRUE
    /\ call' = Called("Stop", << >>, <<StopResult(StopGuard)>>)
    /\ UNCHANGED <<application, tracks, last, wrap, origin, lastPkt, now,
                   prod, emitted>>

(***************************************************************************)
(* Stream::Terminate (lines 71-75)                                         *)
(***************************************************************************)
Terminate ==
    /\ state' = "TERMINATED"
    /\ call' = Called("Terminate", << >>, <<TRUE>>)
    /\ UNCHANGED <<application, tracks, engine, lastPkt, now, stopCalls, prod, emitted>>

(***************************************************************************)
(* Stream::SetState (lines 177-187)                                        *)
(***************************************************************************)
\* a SetState() with no guard, and one guarding the wrong state
SetStateRefusedNever(s) == FALSE

SetStateRefusedWrong(s) == s = "TERMINATED"

SetStateRefused(s) == s = "STOPPED"

SetState(s) ==
    /\ IF SetStateRefused(s)
       THEN /\ UNCHANGED state
            /\ call' = Called("SetState", <<s>>, <<FALSE>>)
       ELSE /\ state' = s
            /\ call' = Called("SetState", <<s>>, <<TRUE>>)
    /\ UNCHANGED <<application, tracks, engine, lastPkt, now, stopCalls, prod, emitted>>


(***************************************************************************)
(* Stream::SendFrame (lines 149-175).  ok is what the application's        *)
(* SendFrame returns; the call's record tells how many packets the call    *)
(* handed to the application and how many bytes it reported to the monitor.*)
(***************************************************************************)
\* the bitstream format demanded of OVT packets too
PacketValidStrict(ptype, fmt) ==
    /\ application
    /\ ptype # "Unknown"
    /\ fmt # "Unknown"

PacketValid(ptype, fmt) ==
    /\ application
    /\ ptype # "Unknown"
    /\ ~(ptype # "OVT" /\ fmt = "Unknown")

SendFrameBody(op, ptype, fmt, len, ok) ==
    /\ IF PacketValid(ptype, fmt)
       THEN /\ lastPkt' = now
            /\ call' = Called(op, <<ptype, fmt, len>>,
                              [ret |-> ok, forwarded |-> 1, bytesIn |-> len])
       ELSE /\ UNCHANGED lastPkt
            /\ call' = Called(op, <<ptype, fmt, len>>,
                              [ret |-> FALSE, forwarded |-> 0, bytesIn |-> 0])
    /\ UNCHANGED <<state, application, tracks, engine, now, stopCalls, prod,
                   emitted>>

SendFrame(ptype, fmt, len, ok) == SendFrameBody("SendFrame", ptype, fmt, len, ok)

(***************************************************************************)
(* Stream::SendDataFrame (lines 103-127).  len = 0 stands for a null       *)
(* frame.                                                                  *)
(***************************************************************************)
HasDataTrack == \E t \in DOMAIN tracks : tracks[t].data

SendDataFrame(ptype, fmt, len, ok) ==
    IF len = 0 \/ ~HasDataTrack
    THEN /\ call' = Called("SendDataFrame", <<ptype, fmt, len>>,
                           [ret |-> FALSE, forwarded |-> 0, bytesIn |-> 0])
         /\ UNCHANGED <<state, application, tracks, engine, lastPkt, now,
                        stopCalls, prod, emitted>>
    ELSE SendFrameBody("SendDataFrame", ptype, fmt, len, ok)

(***************************************************************************)
(* Stream::AdjustTimestampByBase (lines 241-343)                           *)
(***************************************************************************)
\* a wrap looked for only beyond the whole range
ForwardWrapFullRange(m, t, ts, max) == Has(m, t) /\ m[t] - ts > max

\* line 282 / 304: the last raw value is more than half the range ahead
ForwardWrap(m, t, ts, max) == Has(m, t) /\ m[t] - ts > max \div 2

\* line 287: PTS only, and only when no forward wrap was seen
ReverseWrap(m, t, ts, max) ==
    /\ Has(m, t)
    /\ ~ForwardWrap(m, t, ts, max)
    /\ ts - m[t] > max \div 2

\* lines 284 / 306: operator[] creates the counter at 0, ++ makes it 1
Counted(m, t, hit) == IF hit THEN Put(m, t, At(m, t) + 1) ELSE m

\* the start timestamp captured anew by every call
StartOfAlways(t, dts) == TbToUs(dts, tracks[t])

\* lines 252-259: the start timestamp this call works with
StartOf(t, dts) == IF start = Unset THEN TbToUs(dts, tracks[t]) ELSE start

\* lines 262-267
BaseTb(t) == IF Has(base, t) THEN UsToTb(base[t], tracks[t]) ELSE 0

\* the timestamps anchored on the dts of the call itself
RebasedDtsAnchor(t, ts, dts) == BaseTb(t) + (ts - dts)

\* lines 270-271: base_timestamp + (ts - start_timestamp)
Rebased(t, ts, dts) == BaseTb(t) + (ts - UsToTb(StartOf(t, dts), tracks[t]))

\* the offset applied through operator[], whether or not a counter exists
WrapOffsetAlways(m, t, adj, max) == (At(m, t) + adj) * max

\* lines 294-298 / 311-315: the counter times the modulus, when a counter exists
WrapOffset(m, t, adj, max) == IF Has(m, t) THEN (m[t] + adj) * max ELSE 0

FinalPts(t, pts, dts, max) ==
    LET rev == ReverseWrap(origin[1], t, pts, max)
        cnt == Counted(wrap[1], t, ForwardWrap(origin[1], t, pts, max))
    IN  Rebased(t, pts, dts) + WrapOffset(cnt, t, IF rev THEN -1 ELSE 0, max)

FinalDts(t, dts, max) ==
    LET cnt == Counted(wrap[2], t, ForwardWrap(origin[2], t, dts, max))
    IN  Rebased(t, dts, dts) + WrapOffset(cnt, t, 0, max)

\* the last raw pts updated on every call
NextOriginAlways(t, pts, dts, max) == << Put(origin[1], t, pts), Put(origin[2], t, dts) >>

\* lines 320-324
NextOrigin(t, pts, dts, max) ==
    << IF ReverseWrap(origin[1], t, pts, max) THEN origin[1] ELSE Put(origin[1], t, pts),
       Put(origin[2], t, dts) >>

\* lines 244-247: return -1, pts and dts untouched
UnknownTrack(pts, dts) == <<-1, pts, dts>>

AdjustByBaseBody(t, pts, dts, max) ==
    /\ IF ~GetTrack(t)
       THEN /\ call' = Called("AdjustTimestampByBase", <<t, pts, dts, max>>,
                              UnknownTrack(pts, dts))
            /\ UNCHANGED engine
       ELSE /\ start' = StartOf(t, dts)
            /\ wrap' = << Counted(wrap[1], t, ForwardWrap(origin[1], t, pts, max)),
                          Counted(wrap[2], t, ForwardWrap(origin[2], t, dts, max)) >>
            /\ last' = Put(last, t, TbToUs(FinalDts(t, dts, max), tracks[t]))
            /\ origin' = NextOrigin(t, pts, dts, max)
            /\ call' = Called("AdjustTimestampByBase", <<t, pts, dts, max>>,
                              <<FinalPts(t, pts, dts, max), FinalPts(t, pts, dts, max),
                                FinalDts(t, dts, max)>>)
            /\ UNCHANGED <<base, source>>
    /\ UNCHANGED <<state, application, tracks, lastPkt, now, 
                   stopCalls>>

AdjustTimestampByBase(t, pts, dts, max) ==
    /\ AdjustByBaseBody(t, pts, dts, max)
    /\ UNCHANGED <<prod, emitted>>

(***************************************************************************)
(* Stream::GetBaseTimestamp (lines 345-362)                                *)
(***************************************************************************)
BaseTimestampOf(t) ==
    IF ~GetTrack(t) THEN -1
    ELSE LET b == IF Has(base, t) THEN base[t] ELSE 0
         IN  UsToTb(b, tracks[t])

\* operator[] without the find(): the lookup creates the entry
BaseAfterGetCreates(t) == IF GetTrack(t) THEN Put(base, t, At(base, t)) ELSE base

\* lines 354-357: find() before operator[], so no entry is created
BaseAfterGet(t) == base

GetBaseTimestamp(t) ==
    /\ call' = Called("GetBaseTimestamp", <<t>>, <<BaseTimestampOf(t)>>)
    /\ base' = BaseAfterGet(t)
    /\ UNCHANGED <<state, application, tracks, source, last, wrap, origin, start,
                   lastPkt, now, stopCalls, prod, emitted>>

(***************************************************************************)
(* Stream::GetDeltaTimestamp (lines 386-425)                               *)
(***************************************************************************)
\* a wrap assumed from half the range on, as AdjustTimestampByBase does
NearMaxHalf(b, max) == b * 2 > max

\* line 406: last > ((double)max_timestamp * 99.99) / 100
NearMax(b, max) == b * 10000 > max * 9999

\* the plain difference, with neither a wrap nor a restart looked for
GetDeltaSigned(t, ts, max) == IF ~Has(source, t) THEN 0 ELSE ts - source[t]

\* lines 391-424: the delta returned; line 394 / 423 store ts as the baseline
GetDeltaTimestamp(t, ts, max) ==
    IF ~Has(source, t) THEN 0
    ELSE IF ts < source[t]
         THEN IF NearMax(source[t], max) THEN (max - source[t]) + ts ELSE 0
         ELSE ts - source[t]

(***************************************************************************)
(* Stream::AdjustTimestampByDelta (lines 365-384)                          *)
(***************************************************************************)
DeltaSum(t, ts, max) ==
    (IF Has(last, t) THEN last[t] ELSE 0) + GetDeltaTimestamp(t, ts, max)

AdjustTimestampByDelta(t, ts, max) ==
    /\ source' = Put(source, t, ts)
    /\ last' = Put(last, t, DeltaSum(t, ts, max))
    /\ call' = Called("AdjustTimestampByDelta", <<t, ts, max>>, <<DeltaSum(t, ts, max)>>)
    /\ UNCHANGED <<state, application, tracks, base, wrap, origin, start, lastPkt,
                   now, stopCalls, prod, emitted>>

(***************************************************************************)
(* The model stops a run whose clocks or counters would leave its bounds:  *)
(* every specification conjoins Within to the steps that move them.        *)
(***************************************************************************)
InRange(v, lim) ==
    \/ v >= -lim /\ v <= lim
    \/ v = Int64Max
    \/ v <= Int64Min + lim

Within(lim, cnt) ==
    /\ \A k \in DOMAIN base' : InRange(base'[k], lim)
    /\ \A k \in DOMAIN last' : InRange(last'[k], lim)
    /\ \A i \in {1, 2} : \A k \in DOMAIN wrap'[i] : wrap'[i][k] <= cnt

(***************************************************************************)
(* The default specification: every operation of the stream, on small      *)
(* inputs.  Track 1 is fed through AdjustTimestampByBase, track 2 through  *)
(* AdjustTimestampByDelta, and id 3, which no directory holds, through     *)
(* both.                                                                   *)
(***************************************************************************)
Modulus == 3

DispatchInputs ==
    {<<"Unknown", "H264">>, <<"OVT", "Unknown">>, <<"RAW", "Unknown">>,
     <<"RAW", "H264">>}

DeltaInputs == {<<2, 0>>, <<2, 1>>, <<3, 1>>}

Next ==
    \/ Tick
    \/ \E ub \in BOOLEAN : Start(ub) /\ Within(MaxTs, MaxWrap)
    \/ Stop
    \/ Terminate
    \/ \E s \in States : SetState(s)
    \/ \E in \in DispatchInputs, ok \in BOOLEAN : SendFrame(in[1], in[2], 1, ok)
    \/ \E len \in {0, 1} : SendDataFrame("RAW", "H264", len, TRUE)
    \/ \E t \in {1, 3} :
          AdjustTimestampByBase(t, 1, 1, Modulus) /\ Within(MaxTs, MaxWrap)
    \/ \E t \in TrackIds : GetBaseTimestamp(t)
    \/ \E in \in DeltaInputs :
          AdjustTimestampByDelta(in[1], in[2], Modulus) /\ Within(MaxTs, MaxWrap)

Spec == Init /\ [][Next]_vars

(***************************************************************************)
(* The linear specification: one 90 kHz track, fed timestamps a thousand   *)
(* ticks apart under a modulus far above them, across sessions.            *)
(***************************************************************************)
LinearTracks == 1 :> [num |-> 1, den |-> 90000, data |-> FALSE]

LinearModulus == 1000000
LinearRaw == {1000, 2000}
LinearSpan == 12000

InitLinear ==
    /\ InitStream
    /\ application = TRUE
    /\ tracks = LinearTracks
    /\ prod = <<0, 0>>

NextLinear ==
    \/ Stop
    \/ SetState("PLAYING")
    \/ GetBaseTimestamp(1)
    \/ \E pts \in LinearRaw, dts \in LinearRaw :
          AdjustTimestampByBase(1, pts, dts, LinearModulus) /\ Within(LinearSpan, 0)

SpecLinear == InitLinear /\ [][NextLinear]_vars

(***************************************************************************)
(* The wraparound specification: a producer feeds one track raw pts and dts*)
(* that each advance, modulo WrapModulus + 1, by less than half the range. *)
(* prod holds the unwrapped values fed last, emitted the adjusted pair the *)
(* call gave back.                                                         *)
(***************************************************************************)
WrapModulus == 31
WrapSteps == {1, 5, 9}
WrapTracks == {2}

Raw(u) == u % (WrapModulus + 1)

InitWrap ==
    /\ InitStream
    /\ application = TRUE
    /\ tracks = DefaultTracks
    /\ prod = <<WrapModulus - 10, WrapModulus - 10>>

Feed(t, dp, dd) ==
    LET u == IF emitted = << >> THEN prod ELSE <<prod[1] + dp, prod[2] + dd>>
    IN  /\ u[1] < (MaxWrap + 1) * (WrapModulus + 1)
        /\ u[2] < (MaxWrap + 1) * (WrapModulus + 1)
        /\ AdjustByBaseBody(t, Raw(u[1]), Raw(u[2]), WrapModulus)
        /\ prod' = u
        /\ emitted' = <<call'.out[2], call'.out[3]>>

NextWrap ==
    \/ \E t \in WrapTracks, dp \in WrapSteps, dd \in WrapSteps : Feed(t, dp, dd)
    \/ \E t \in WrapTracks : GetBaseTimestamp(t)

SpecWrap == InitWrap /\ [][NextWrap]_vars

(***************************************************************************)
(* The engine specification: track 1 is fed through AdjustTimestampByBase  *)
(* with raw pts and dts chosen freely from both ends of the raw range, so  *)
(* that pts and dts wrap forward and the pts steps back across the wrap,   *)
(* over sessions ended by Stop(); track 2 is fed one raw value.            *)
(***************************************************************************)
EngineModulus == 7
EngineSpan == 8
EngineRaw == {0, 1, 7}
EngineTracks == {1}
OtherTracks == {2}

InitEngineSpec ==
    /\ InitStream
    /\ application = TRUE
    /\ tracks = DefaultTracks
    /\ prod = <<0, 0>>

NextEngine ==
    \/ Stop
    \/ SetState("PLAYING")
    \/ \E t \in EngineTracks, pts \in EngineRaw, dts \in EngineRaw :
          AdjustTimestampByBase(t, pts, dts, EngineModulus)
            /\ Within(EngineSpan, MaxWrap)
    \/ \E t \in OtherTracks :
          AdjustTimestampByBase(t, 1, 1, EngineModulus)
            /\ Within(EngineSpan, MaxWrap)

SpecEngine == InitEngineSpec /\ [][NextEngine]_vars

(***************************************************************************)
(* The delta specification: track 2 is fed through AdjustTimestampByDelta  *)
(* only, with raw timestamps on both sides of 99.99% of the modulus, while *)
(* the stream is stopped and started again.                                *)
(***************************************************************************)
DeltaModulus == 20000
DeltaSpan == 30
DeltaRaw == {10, 19998, 19999}
DeltaTracks == {2}

InitDelta ==
    /\ InitStream
    /\ application = TRUE
    /\ tracks = DefaultTracks
    /\ prod = <<0, 0>>

NextDelta ==
    \/ Stop
    \/ \E ub \in BOOLEAN : Start(ub)
    \/ SetState("PLAYING")
    \/ \E t \in DeltaTracks, ts \in DeltaRaw :
          AdjustTimestampByDelta(t, ts, DeltaModulus) /\ Within(DeltaSpan, 0)

SpecDelta == InitDelta /\ [][NextDelta]_vars

(***************************************************************************)
(* Properties of the lifecycle and of frame dispatch.                      *)
(***************************************************************************)
\* the step is a call of op (Tick is the only step that keeps the call record)
IsCall(op) == call'.op = op /\ now' = now

KnownKeys(m) == (DOMAIN m) \cap (DOMAIN tracks)

\* C1: a Stop() that directly follows a Stop() finds the stream STOPPED,
\* returns success like the first, and leaves the state, BaseTimestampMap,
\* StartTimestamp and SourceTimestampMap as they were.
C1_StopTwice ==
    [][(IsCall("Stop") /\ call.op = "Stop")
         => /\ state = "STOPPED"
            /\ call.out = <<TRUE>>
            /\ call'.out = <<TRUE>>
            /\ UNCHANGED <<state, base, start, source>>]_vars

C1_Witness ==
    /\ call.op = "Stop"
    /\ call.rep = 2
    /\ state = "STOPPED"
    /\ \E k \in DOMAIN base : base[k] > 0

\* C2: SetState(STOPPED) returns failure and leaves the state as it was, from
\* every state; SetState(s) for another s returns success and sets the state
\* to s.
C2_SetStateGuard ==
    [][IsCall("SetState")
         => IF call'.in[1] = "STOPPED"
            THEN call'.out = <<FALSE>> /\ state' = state
            ELSE call'.out = <<TRUE>> /\ state' = call'.in[1]]_vars

C2_Witness ==
    /\ call.op = "SetState"
    /\ call.in = <<"STOPPED">>
    /\ call.out = <<FALSE>>
    /\ state = "TERMINATED"

\* C3: the stream starts outside STOPPED; it is STOPPED only if Stop() has
\* been called, and every step that takes the state into STOPPED is a Stop()
\* call, which does the end-of-session rebase in the same step.
C3_StoppedOnlyByStop ==
    /\ [](state = "STOPPED" => stopCalls)
    /\ [][(state # "STOPPED" /\ state' = "STOPPED")
            => /\ IsCall("Stop")
               /\ start' = Unset
               /\ source' = EmptyMap
               /\ DOMAIN last \subseteq DOMAIN base'
               /\ \A j, k \in DOMAIN last : base'[j] = base'[k]]_vars

C3_Witness ==
    /\ state = "STOPPED"
    /\ stopCalls
    /\ call.op = "SetState"
    /\ call.in = <<"STOPPED">>
    /\ DOMAIN base # {}

\* the step is a Stop() on a stream that is not STOPPED
StopsStream == IsCall("Stop") /\ state # "STOPPED"

IsMinOfValid(v) ==
    /\ \E k \in KnownKeys(last) : v = last[k]
    /\ \A k \in KnownKeys(last) : v <= last[k]

C5_StartBridges ==
    [][IsCall("Start")
         => /\ call'.out = <<TRUE>>
            /\ DOMAIN base' = DOMAIN base
            /\ IF lastPkt = Never
               THEN base' = base
               ELSE \A t \in KnownKeys(base) : base'[t] = base[t] + (now - lastPkt)]_vars

C5_Witness ==
    /\ call.op = "Start"
    /\ lastPkt # Never
    /\ now - lastPkt > 0
    /\ KnownKeys(base) = {1, 2}
    /\ base[1] = now - lastPkt
    /\ base[2] = now - lastPkt

\* C6: every key of every per-track map is a track id of the directory.
C6_KeysAreTracks ==
    /\ DOMAIN base \subseteq DOMAIN tracks
    /\ DOMAIN source \subseteq DOMAIN tracks
    /\ DOMAIN last \subseteq DOMAIN tracks
    /\ \A i \in {1, 2} : DOMAIN wrap[i] \subseteq DOMAIN tracks
    /\ \A i \in {1, 2} : DOMAIN origin[i] \subseteq DOMAIN tracks

\* C7: AdjustTimestampByBase on an id the directory does not hold returns -1
\* and leaves pts, dts and the whole engine as they were; GetBaseTimestamp
\* returns -1 on such an id and changes no state on any id.
C7_UnknownTrack ==
    /\ [][(IsCall("AdjustTimestampByBase") /\ ~GetTrack(call'.in[1]))
            => /\ call'.out = <<-1, call'.in[2], call'.in[3]>>
               /\ UNCHANGED <<engine, state, lastPkt>>]_vars
    /\ [][IsCall("GetBaseTimestamp")
            => /\ UNCHANGED <<engine, state, lastPkt>>
               /\ (~GetTrack(call'.in[1]) => call'.out = <<-1>>)]_vars

C7_Witness ==
    /\ call.op = "AdjustTimestampByBase"
    /\ call.in[1] = 3
    /\ call.out = <<-1, 1, 1>>
    /\ start # Unset
    /\ Has(base, 1)

\* C8: SendFrame fails, forwards nothing, reports no bytes and keeps the
\* last-packet instant when the application is absent, the packet type is
\* Unknown, or the type is not OVT and the format is Unknown; otherwise it
\* sets the last-packet instant to now, reports the bytes and forwards the
\* packet once.  Only a step that dispatches a frame changes the instant.
C8_SendFrame ==
    /\ [][IsCall("SendFrame")
            => LET ptype == call'.in[1]
                   fmt == call'.in[2]
                   bad == \/ ~application
                          \/ ptype = "Unknown"
                          \/ (ptype # "OVT" /\ fmt = "Unknown")
               IN  IF bad
                   THEN /\ call'.out = [ret |-> FALSE, forwarded |-> 0, bytesIn |-> 0]
                        /\ lastPkt' = lastPkt
                   ELSE /\ call'.out.forwarded = 1
                        /\ call'.out.bytesIn = call'.in[3]
                        /\ lastPkt' = now]_vars
    /\ [][lastPkt' # lastPkt
            => IsCall("SendFrame") \/ IsCall("SendDataFrame")]_vars

C8_Witness ==
    /\ call.op = "SendFrame"
    /\ call.in = <<"OVT", "Unknown", 1>>
    /\ call.out.forwarded = 1
    /\ lastPkt = now
    /\ now > 0


(***************************************************************************)
(* Properties of AdjustTimestampByBase.                                    *)
(***************************************************************************)
\* the step is the call (1, 2000, 2000) right after the call (1, 1000, 1000)
\* that opened the session, on the 90 kHz track, with base offset 0
SecondLinearCall ==
    /\ IsCall("AdjustTimestampByBase")
    /\ call'.in = <<1, 2000, 2000, LinearModulus>>
    /\ call.op = "AdjustTimestampByBase"
    /\ call.in = <<1, 1000, 1000, LinearModulus>>
    /\ start = 11111
    /\ At(base, 1) = 0

\* C9 as stated: the second call yields final_pts = 2000.
C9_Original == [][SecondLinearCall => call'.out[1] = 2000]_vars

\* C9 amended: the first call captures StartTimestamp = 11111 us, which is
\* 999 ticks; the first call yields 1 and the second 1001 = 2000 - 999, for
\* pts and dts alike.
C9_LinearRebase ==
    /\ [][(IsCall("AdjustTimestampByBase") /\ start = Unset /\ call'.in[3] = 1000)
            => start' = 11111]_vars
    /\ [][SecondLinearCall
            => /\ call.out = <<1, 1, 1>>
               /\ start' = 11111
               /\ call'.out = <<1001, 1001, 1001>>]_vars

C9_Witness ==
    /\ call.op = "AdjustTimestampByBase"
    /\ call.in = <<1, 2000, 2000, LinearModulus>>
    /\ call.out[1] = 1001
    /\ start = 11111
    /\ ~stopCalls
    /\ origin = <<1 :> 2000, 1 :> 2000>>
    /\ wrap = <<EmptyMap, EmptyMap>>

\* how often an unwrapped value has passed the end of the raw range
Crossings(u) == u \div (WrapModulus + 1)

\* C10: the PTS counter counts the wraps of the raw pts and the DTS counter
\* those of the raw dts, each raised by one on exactly the call whose raw
\* value is more than half the range below the last one, and the adjusted
\* pts and dts never step back: they advance by the raw advance, less one on
\* the call that wraps.
C10_ForwardWrap ==
    /\ [](emitted # << >>
            => \A t \in WrapTracks :
                  /\ At(wrap[1], t) = Crossings(prod[1])
                  /\ At(wrap[2], t) = Crossings(prod[2]))
    /\ [][(IsCall("AdjustTimestampByBase") /\ emitted # << >>)
            => \A t \in WrapTracks, i \in {1, 2} :
                  LET hit == origin[i][t] - Raw(prod'[i]) > WrapModulus \div 2
                      inc == At(wrap'[i], t) - At(wrap[i], t)
                  IN  /\ inc = IF hit THEN 1 ELSE 0
                      /\ emitted'[i] >= emitted[i]
                      /\ emitted'[i] - emitted[i] = (prod'[i] - prod[i]) - inc]_vars

\* raw pts max-10, max-5, 3 fed while the raw dts has not wrapped
C10_Witness ==
    /\ call.op = "AdjustTimestampByBase"
    /\ prod[1] = WrapModulus + 4
    /\ call.in[2] = 3
    /\ origin[1] = [t \in WrapTracks |-> 3]
    /\ wrap = <<[t \in WrapTracks |-> 1], EmptyMap>>
    /\ prod[2] <= WrapModulus
    /\ emitted[1] = 13

(***************************************************************************)
(* Properties of BaseTimestampMap and of Start().                          *)
(***************************************************************************)
\* C14: BaseTimestampMap, keys and values, changes only in a Start() or in a
\* Stop() on a stream that is not STOPPED: AdjustTimestampByBase,
\* AdjustTimestampByDelta, GetBaseTimestamp, SendFrame, SendDataFrame,
\* SetState, Terminate and a Stop() on a STOPPED stream leave it as it is.
C14_BaseChangesOnly ==
    /\ [][base' # base => IsCall("Start") \/ StopsStream]_vars
    /\ [][(IsCall("Stop") /\ state = "STOPPED") => base' = base]_vars

\* a delta call moved track 2 on while both base entries stayed behind
C14_Witness ==
    /\ call.op = "AdjustTimestampByDelta"
    /\ call.in[1] = 2
    /\ KnownKeys(base) = {1, 2}
    /\ base[2] = 1
    /\ last[2] > base[2]
    /\ state = "STOPPED"

\* C16: all entries present in BaseTimestampMap hold the same value, in
\* every reachable state.
C16_BaseAligned == \A j \in DOMAIN base : \A k \in DOMAIN base : base[j] = base[k]

\* tracks that stopped on different timestamps, after a Stop() and the
\* Start() that bridged a gap
C16_Witness ==
    /\ call.op = "Start"
    /\ KnownKeys(base) = {1, 2}
    /\ last[1] # last[2]
    /\ base[1] = Min({last[1], last[2]}) + 1
    /\ base[2] = base[1]
    /\ now - lastPkt = 1

\* C19: Start() returns success from every state and changes neither the
\* state, StartTimestamp, SourceTimestampMap, LastTimestampMap, the
\* wraparound counters nor the last-origin maps; only values of
\* BaseTimestampMap may change, by the reconnect gap.
C19_StartOnlyBridges ==
    [][IsCall("Start")
         => /\ call'.out = <<TRUE>>
            /\ UNCHANGED <<state, start, source, last, wrap, origin, lastPkt>>
            /\ DOMAIN base' = DOMAIN base
            /\ base' # base => lastPkt # Never]_vars

\* a STOPPED stream with a session already running again is started
C19_Witness ==
    /\ call.op = "Start"
    /\ state = "STOPPED"
    /\ start # Unset
    /\ source # EmptyMap
    /\ Has(base, 1)
    /\ base[1] > last[1]

(***************************************************************************)
(* Properties of AdjustTimestampByBase over sessions, with wraps in both   *)
(* directions.                                                             *)
(***************************************************************************)
\* the step is an AdjustTimestampByBase call on a track of the directory
AdjustsKnown == IsCall("AdjustTimestampByBase") /\ GetTrack(call'.in[1])

ReverseSeen ==
    /\ Has(origin[1], call'.in[1])
    /\ call'.in[2] - origin[1][call'.in[1]] > call'.in[4] \div 2

\* C15: on a call whose raw pts is more than half the range above the last
\* raw pts, the stored PTS counter and the last raw pts of the track stay as
\* they are while the last raw dts becomes the call's dts; on every other call
\* the last raw pts becomes the call's pts.  A raw dts that far above the last
\* one changes no DTS counter and gets the stored count applied in full.
C15_ReversePtsOnly ==
    [][AdjustsKnown
         => LET t == call'.in[1]
                pts == call'.in[2]
                dts == call'.in[3]
                max == call'.in[4]
            IN  /\ origin'[2][t] = dts
                /\ IF ReverseSeen
                   THEN wrap'[1] = wrap[1] /\ origin'[1] = origin[1]
                   ELSE origin'[1][t] = pts
                /\ (Has(origin[2], t) /\ dts - origin[2][t] > max \div 2)
                      => /\ wrap'[2] = wrap[2]
                         /\ call'.out[3] =
                               Rebased(t, dts, dts) + At(wrap[2], t) * max]_vars

\* after the pts wrapped (7 to 1) a late pts 7 arrives: the counter stays 1
\* and the last raw pts stays 1
C15_Witness ==
    /\ call.op = "AdjustTimestampByBase"
    /\ call.in = <<1, 7, 7, EngineModulus>>
    /\ origin = <<1 :> 1, 1 :> 7>>
    /\ wrap = <<1 :> 1, EmptyMap>>
    /\ ~stopCalls

\* neither a forward nor a reverse wrap is seen by the call
NoWrapSeen ==
    LET t == call'.in[1]
        pts == call'.in[2]
        dts == call'.in[3]
        half == call'.in[4] \div 2
    IN  /\ Has(origin[1], t) => (origin[1][t] - pts <= half /\ pts - origin[1][t] <= half)
        /\ Has(origin[2], t) => origin[2][t] - dts <= half

\* the call directly follows a call on the same track that saw no reverse wrap
FollowsCall ==
    /\ call.op = "AdjustTimestampByBase"
    /\ call.in[1] = call'.in[1]
    /\ call.in[4] = call'.in[4]
    /\ At(origin[1], call.in[1]) = call.in[2]

\* the adjusted pts and dts move by what the raw pts and dts moved by
KeepsSteps ==
    /\ call'.out[2] - call.out[2] = call'.in[2] - call.in[2]
    /\ call'.out[3] - call.out[3] = call'.in[3] - call.in[3]

C18_Continuity ==
    [][(AdjustsKnown /\ start = Unset /\ stopCalls)
         => LET d == call'.out[3] - BaseTb(call'.in[1])
            IN  d >= -1 /\ d <= 1]_vars

\* C20: the multiple of the modulus added to a packet's pts is never
\* negative: a pts seen as a reverse wrap gets the stored count less one when
\* a counter exists (it is then at least 1) and nothing when none does; the
\* stored PTS and DTS counters never decrease and no counter disappears.
C20_CountersBounded ==
    /\ [][AdjustsKnown
            => LET t == call'.in[1]
                   max == call'.in[4]
                   added == call'.out[2] - Rebased(t, call'.in[2], call'.in[3])
               IN  /\ added >= 0
                   /\ ReverseSeen
                         => added = IF Has(wrap[1], t) THEN (wrap[1][t] - 1) * max ELSE 0]_vars
    /\ [][\A i \in {1, 2} : \A k \in DOMAIN wrap[i] :
              Has(wrap'[i], k) /\ wrap'[i][k] >= wrap[i][k]]_vars
    /\ [](\A i \in {1, 2} : \A k \in DOMAIN wrap[i] : wrap[i][k] >= 1)

\* a late pts 7 after both the pts and the dts wrapped: one wrap is counted,
\* none is applied to this pts
C20_Witness ==
    /\ call.op = "AdjustTimestampByBase"
    /\ call.in = <<1, 7, 1, EngineModulus>>
    /\ origin = <<1 :> 0, 1 :> 1>>
    /\ wrap = <<1 :> 1, 1 :> 1>>
    /\ call.out[2] < call.out[3]

(***************************************************************************)
(* Properties of AdjustTimestampByDelta.                                   *)
(***************************************************************************)
\* the delta a call added: what it returned less the running total before it
DeltaOf == call'.out[1] - At(last, call'.in[1])

\* C11: with t the raw timestamp, b the stored baseline and max the modulus,
\* the delta is 0 on the first observation of the track (also the first after
\* Stop() emptied SourceTimestampMap), (max - b) + t when t < b and b is above
\* 99.99% of max, 0 when t < b and b is not, and t - b when t >= b; the
\* baseline afterwards is t in every case.
C11_DeltaCases ==
    [][IsCall("AdjustTimestampByDelta")
         => LET k == call'.in[1]
                t == call'.in[2]
                max == call'.in[3]
            IN  /\ source'[k] = t
                /\ IF ~Has(source, k) THEN DeltaOf = 0
                   ELSE LET b == source[k]
                        IN  IF t >= b THEN DeltaOf = t - b
                            ELSE IF 10000 * b > 9999 * max
                                 THEN DeltaOf = (max - b) + t
                                 ELSE DeltaOf = 0]_vars

\* raw 19998, 19999, then 10: a wrap from the top of the range adds
\* (max - 19999) + 10 = 11 to the total of 1
C11_Witness ==
    /\ call.op = "AdjustTimestampByDelta"
    /\ call.in = <<2, 10, DeltaModulus>>
    /\ call.out = <<12>>
    /\ source = 2 :> 10
    /\ last = 2 :> 12
    /\ ~stopCalls

\* C12: a track driven only by AdjustTimestampByDelta, with raw timestamps in
\* 0..max, emits 0 first and never a value below the one before, across
\* restarts, wraps, Stop() and Start(); each emitted value is the previous one
\* plus the delta, is what LastTimestampMap then holds, and no other operation
\* changes that entry.
C12_DeltaMonotonic ==
    /\ [][IsCall("AdjustTimestampByDelta")
            => LET k == call'.in[1]
               IN  /\ ~Has(last, k) => call'.out[1] = 0
                   /\ call'.out[1] >= At(last, k)
                   /\ DeltaOf >= 0
                   /\ last'[k] = call'.out[1]]_vars
    /\ [][~IsCall("AdjustTimestampByDelta")
            => \A k \in DeltaTracks :
                  /\ Has(last', k) = Has(last, k)
                  /\ At(last', k) = At(last, k)]_vars

\* the session after a Stop() that ended on the total 12 opens with the raw
\* value 10: the emitted value stays 12
C12_Witness ==
    /\ call.op = "AdjustTimestampByDelta"
    /\ call.in = <<2, 10, DeltaModulus>>
    /\ call.out = <<12>>
    /\ last = 2 :> 12
    /\ source = 2 :> 10
    /\ stopCalls
    /\ base = 2 :> 12

====
